---- MODULE Spec2Model ----
(***************************************************************************)
(* A model of stardis/radiation_field/base.py: the RadiationField          *)
(* constructor, statement by statement, and create_stellar_radiation_field *)
(* driving calc_alphas and raytrace over it.                               *)
(*                                                                         *)
(* Real numbers are fixed-point integers with four decimals (Scale).       *)
(* Array indices are 0-based, as in numpy.                                 *)
(***************************************************************************)
EXTENDS Integers, Sequences, FiniteSets, TLC

\* ---------------------------------------------------------------- bounds
MaxFreq == 2
MaxDepth == 2
MaxThetas == 4
MaxThreads == 2
MaxAlpha == 2

\* ------------------------------------------------------- fixed-point reals
Scale == 10 * 1000
\* np.pi, to four decimals
PI == 31416
Half == Scale \div 2
Mul(a, b) == (a * b) \div Scale

RECURSIVE SumSeq(_)
SumSeq(s) == IF s = <<>> THEN 0 ELSE Head(s) + SumSeq(Tail(s))

Abs(x) == IF x < 0 THEN 0 - x ELSE x

\* ------------------------------------------------------------- numpy
\* np.polynomial.legendre.leggauss(deg) for deg >= 1: the Gauss-Legendre
\* nodes (ascending) and weights on [-1, 1], to four decimals.  deg <= 0
\* raises ValueError (LegGaussRaises).
LegGaussNodes(deg) ==
    CASE deg = 1 -> <<0>>
      [] deg = 2 -> <<0 - 5774, 5774>>
      [] deg = 3 -> <<0 - 7746, 0, 7746>>
      [] deg = 4 -> <<0 - 8611, 0 - 3400, 3400, 8611>>
      [] deg = 5 -> <<0 - 9062, 0 - 5385, 0, 5385, 9062>>
      [] deg = 6 -> <<0 - 9325, 0 - 6612, 0 - 2386, 2386, 6612, 9325>>

LegGaussWeights(deg) ==
    CASE deg = 1 -> <<20000>>
      [] deg = 2 -> <<10000, 10000>>
      [] deg = 3 -> <<5556, 8889, 5556>>
      [] deg = 4 -> <<3479, 6521, 6521, 3479>>
      [] deg = 5 -> <<2369, 4786, 5689, 4786, 2369>>
      [] deg = 6 -> <<1713, 3608, 4679, 4679, 3608, 1713>>

LegGaussRaises(deg) == deg <= 0

Range0(n) == 0 .. (n - 1)

\* The index tuples of an array of the given shape (2-D or 3-D).
Indices(shape) ==
    IF Len(shape) = 2
    THEN Range0(shape[1]) \X Range0(shape[2])
    ELSE Range0(shape[1]) \X Range0(shape[2]) \X Range0(shape[3])

Ones(shape) == [shape |-> shape, data |-> [idx \in Indices(shape) |-> 1]]

\* np.zeros(shape)
Zeros(shape) == [shape |-> shape, data |-> [idx \in Indices(shape) |-> 0]]

\* An attribute that has not been assigned yet.
NoArray == [shape |-> <<>>, data |-> <<>>]


\* ------------------------------------------- RadiationField.__init__ pieces
\* line 53: self.thetas = (thetas / 2) + 0.5 * np.pi / 2, per node
ThetaOf_NoOffset(x) == x \div 2

ThetaOf(x) == (x \div 2) + (Mul(Half, PI) \div 2)

\* line 54: self.I_nus_weights = weights * np.pi / 2, per weight
WeightOf_NotHalved(w) == Mul(w, PI)

WeightOf(w) == Mul(w, PI) \div 2

\* line 49: the shape of F_nu
FnuShape_Transposed(depth, nfreq) == <<nfreq, depth>>

FnuShape(depth, nfreq) == <<depth, nfreq>>

\* lines 65-67: the shape of I_nus
InusShape(depth, nfreq, nthetas) == <<depth, nfreq, nthetas>>

\* lines 49, 65: the freshly allocated flux and intensity arrays
NewArray_Ones(shape) == Ones(shape)

NewArray(shape) == Zeros(shape)

\* Opacities(frequencies, stellar_model): the opacity container, one total
\* absorption coefficient per (depth, frequency) cell, nothing computed yet.
Opacities(frequencies, model) ==
    Zeros(<<model.no_of_depth_points, Len(frequencies)>>)

\* The object __new__ hands to __init__: no attribute assigned yet.
BlankObject ==
    [attrs |-> {},
     frequencies |-> <<>>,
     source_function |-> "unset",
     opacities |-> NoArray,
     F_nu |-> NoArray,
     thetas |-> <<>>,
     I_nus_weights |-> <<>>,
     I_nus |-> NoArray]

\* ----------------------------------------- create_stellar_radiation_field
\* lines 100-112: the calls made on the new field, in program order
Pipeline_Swapped == <<"raytrace", "calc_alphas">>

Pipeline == <<"calc_alphas", "raytrace">>

\* lines 100-112: neither call sits in a try block, so an exception raised
\* by a stage leaves create_stellar_radiation_field at once.
StageErrorPropagates_Swallowed == FALSE

StageErrorPropagates == TRUE

\* ------------------------------------------------------------------ state
VARIABLES
    tracing_nus,     \* argument: the frequency grid (a sequence)
    stellar_model,   \* argument: [no_of_depth_points]
    stellar_plasma,  \* argument: [alpha], what the opacity stub fills in
    config,          \* argument: [no_of_thetas, n_threads]
    pc,              \* where create_stellar_radiation_field stands
    ip,              \* which call of Pipeline is next or running
    heap,            \* the RadiationField objects allocated so far
    self,            \* __init__'s self (a heap index, 0: none)
    stellar_radiation_field, \* the local of that name (heap index, 0: unbound)
    result,          \* what the caller received (heap index, 0: nothing)
    error,           \* the exception the caller received ("none": none)
    target,          \* the field the running stage was handed
    threads,         \* the n_threads the running stage was handed
    todo,            \* cells the running stage has not started
    writing,         \* per worker: the cell it is writing (NoCell: idle)
    rd,              \* per worker: the value it read or computed for its cell
    writes,          \* history: how often each F_nu/I_nus (depth, freq) cell was written
    log              \* history: the calls, returns and raises, in order

vars == <<tracing_nus, stellar_model, stellar_plasma, config, pc, ip, heap,
          self, stellar_radiation_field, result, error, target, threads,
          todo, writing, rd, writes, log>>

inputs == <<tracing_nus, stellar_model, stellar_plasma, config>>
workers == <<target, threads, todo, writing, rd>>

NoCell == <<0 - 1, 0 - 1>>

Init ==
    /\ \E nf \in 0 .. MaxFreq : tracing_nus = [i \in 1 .. nf |-> i]
    /\ \E nd \in 0 .. MaxDepth : stellar_model = [no_of_depth_points |-> nd]
    /\ \E a \in 1 .. MaxAlpha : stellar_plasma = [alpha |-> a]
    /\ \E nt \in (0 - 1) .. MaxThetas, th \in 1 .. MaxThreads :
          config = [no_of_thetas |-> nt, n_threads |-> th]
    /\ pc = "line96"
    /\ ip = 1
    /\ heap = <<>>
    /\ self = 0
    /\ stellar_radiation_field = 0
    /\ result = 0
    /\ error = "none"
    /\ target = 0
    /\ threads = 0
    /\ todo = {}
    /\ writing = <<>>
    /\ rd = <<>>
    /\ writes = [cell \in Range0(stellar_model.no_of_depth_points)
                            \X Range0(Len(tracing_nus)) |-> 0]
    /\ log = <<>>

\* ------------------------------------------------ RadiationField.__init__
\* line 96: RadiationField(tracing_nus, blackbody_flux_at_nu, stellar_model,
\* config.no_of_thetas) is entered with a new object as self.
New ==
    /\ pc = "line96"
    /\ heap' = Append(heap, BlankObject)
    /\ self' = Len(heap) + 1
    /\ pc' = "line46"
    /\ UNCHANGED <<inputs, ip, stellar_radiation_field, result, error,
                   workers, writes, log>>

\* lines 46-47
Init46 ==
    /\ pc = "line46"
    /\ heap' = [heap EXCEPT ![self] =
                  [@ EXCEPT !.frequencies = tracing_nus,
                            !.source_function = "blackbody_flux_at_nu",
                            !.attrs = @ \cup {"frequencies", "source_function"}]]
    /\ pc' = "line48"
    /\ UNCHANGED <<inputs, ip, self, stellar_radiation_field, result, error,
                   workers, writes, log>>

\* line 48
Init48 ==
    /\ pc = "line48"
    /\ heap' = [heap EXCEPT ![self] =
                  [@ EXCEPT !.opacities = Opacities(heap[self].frequencies, stellar_model),
                            !.attrs = @ \cup {"opacities"}]]
    /\ pc' = "line49"
    /\ UNCHANGED <<inputs, ip, self, stellar_radiation_field, result, error,
                   workers, writes, log>>

\* line 49
Init49 ==
    /\ pc = "line49"
    /\ heap' = [heap EXCEPT ![self] =
                  [@ EXCEPT !.F_nu = NewArray(FnuShape(stellar_model.no_of_depth_points,
                                                       Len(heap[self].frequencies))),
                            !.attrs = @ \cup {"F_nu"}]]
    /\ pc' = "line52"
    /\ UNCHANGED <<inputs, ip, self, stellar_radiation_field, result, error,
                   workers, writes, log>>

\* line 52, leggauss raising: the exception leaves __init__ and then
\* create_stellar_radiation_field, which has no handler.
Init52Raise ==
    /\ pc = "line52"
    /\ LegGaussRaises(config.no_of_thetas)
    /\ pc' = "raised"
    /\ error' = "ValueError"
    /\ log' = Append(log, <<"RadiationField", "raise">>)
    /\ UNCHANGED <<inputs, ip, heap, self, stellar_radiation_field, result,
                   workers, writes>>

\* lines 52-54
Init52 ==
    /\ pc = "line52"
    /\ ~LegGaussRaises(config.no_of_thetas)
    /\ LET thetas == LegGaussNodes(config.no_of_thetas)
           weights == LegGaussWeights(config.no_of_thetas)
       IN heap' = [heap EXCEPT ![self] =
                  [@ EXCEPT !.thetas = [i \in DOMAIN thetas |-> ThetaOf(thetas[i])],
                            !.I_nus_weights = [i \in DOMAIN weights |-> WeightOf(weights[i])],
                            !.attrs = @ \cup {"thetas", "I_nus_weights"}]]
    /\ pc' = "line65"
    /\ UNCHANGED <<inputs, ip, self, stellar_radiation_field, result, error,
                   workers, writes, log>>

\* lines 65-67, then __init__ returns and line 96 binds the local.
Init65 ==
    /\ pc = "line65"
    /\ heap' = [heap EXCEPT ![self] =
                  [@ EXCEPT !.I_nus = NewArray(InusShape(stellar_model.no_of_depth_points,
                                                         Len(heap[self].frequencies),
                                                         Len(heap[self].thetas))),
                            !.attrs = @ \cup {"I_nus"}]]
    /\ stellar_radiation_field' = self
    /\ self' = 0
    /\ pc' = "call"
    /\ log' = Append(log, <<"RadiationField", "return">>)
    /\ UNCHANGED <<inputs, ip, result, error, workers, writes>>


\* ------------------------------------------------------ the two stages
\* calc_alphas and raytrace, as the deterministic collaborators of the
\* design: a pool of n_threads workers, each cell of the (depth, frequency)
\* grid owned by one worker, a worker taking one cell at a time.
Cells(obj) == Indices(obj.opacities.shape)

\* The worker that owns a cell: cells are dealt round-robin.
Owner(cell, obj, n) == ((cell[1] * obj.opacities.shape[2] + cell[2]) % n) + 1

\* calc_alphas: the constant the stub fills into every cell.
AlphaOf(plasma, cell) == plasma.alpha

\* raytrace: F_nu[d, f] from the opacity read at (d, f): that value times
\* the depth index.
FluxOf(alpha, cell) == alpha * cell[1]

\* raytrace: I_nus[d, f, t] from the opacity read at (d, f).
IntensityOf(alpha, cell, t) == alpha * (cell[1] + t)

StageError(stage) ==
    IF stage = "calc_alphas" THEN "calc_alphas error" ELSE "raytrace error"

\* Where create_stellar_radiation_field goes after call number i.
AfterCall(i) == IF i < Len(Pipeline) THEN "call" ELSE "line114"

\* lines 100-106 and 108-112: the next call of Pipeline is made, with the
\* local stellar_radiation_field and config.n_threads as arguments.
CallStage ==
    /\ pc = "call"
    /\ pc' = "running"
    /\ target' = stellar_radiation_field
    /\ threads' = config.n_threads
    /\ todo' = Cells(heap[stellar_radiation_field])
    /\ writing' = [w \in 1 .. config.n_threads |-> NoCell]
    /\ rd' = [w \in 1 .. config.n_threads |-> 0]
    /\ log' = Append(log, <<Pipeline[ip], "call">>)
    /\ UNCHANGED <<inputs, ip, heap, self, stellar_radiation_field, result,
                   error, writes>>

\* A worker takes one of its cells: calc_alphas computes the cell's opacity,
\* raytrace reads it from the field.
WorkerBegin(w) ==
    /\ pc = "running"
    /\ w \in DOMAIN writing
    /\ writing[w] = NoCell
    /\ \E cell \in todo :
          /\ Owner(cell, heap[target], threads) = w
          /\ todo' = todo \ {cell}
          /\ writing' = [writing EXCEPT ![w] = cell]
          /\ rd' = [rd EXCEPT ![w] =
                      IF Pipeline[ip] = "calc_alphas"
                      THEN AlphaOf(stellar_plasma, cell)
                      ELSE heap[target].opacities.data[cell]]
    /\ UNCHANGED <<inputs, pc, ip, heap, self, stellar_radiation_field,
                   result, error, target, threads, writes, log>>

\* The worker stores its cell: calc_alphas into opacities, raytrace into
\* F_nu and into I_nus at every angle.
WorkerCommit(w) ==
    /\ pc = "running"
    /\ w \in DOMAIN writing
    /\ writing[w] # NoCell
    /\ LET cell == writing[w]
           obj == heap[target]
       IN IF Pipeline[ip] = "calc_alphas"
          THEN /\ heap' = [heap EXCEPT ![target].opacities.data[cell] = rd[w]]
               /\ UNCHANGED writes
          ELSE /\ heap' = [heap EXCEPT
                     ![target].F_nu.data[cell] = FluxOf(rd[w], cell),
                     ![target].I_nus.data =
                        [idx \in DOMAIN @ |->
                            IF <<idx[1], idx[2]>> = cell
                            THEN IntensityOf(rd[w], cell, idx[3])
                            ELSE @[idx]]]
               /\ writes' = [writes EXCEPT ![cell] = @ + 1]
    /\ writing' = [writing EXCEPT ![w] = NoCell]
    /\ UNCHANGED <<inputs, pc, ip, self, stellar_radiation_field, result,
                   error, target, threads, todo, rd, log>>

\* The stage has stored every cell and returns.
StageReturn ==
    /\ pc = "running"
    /\ todo = {}
    /\ \A w \in DOMAIN writing : writing[w] = NoCell
    /\ log' = Append(log, <<Pipeline[ip], "return">>)
    /\ pc' = AfterCall(ip)
    /\ ip' = ip + 1
    /\ UNCHANGED <<inputs, heap, self, stellar_radiation_field, result,
                   error, workers, writes>>

\* The stage raises, at any point of its run.  The exception leaves
\* create_stellar_radiation_field unless something swallows it.
StageRaise ==
    /\ pc = "running"
    /\ log' = Append(log, <<Pipeline[ip], "raise">>)
    /\ IF StageErrorPropagates
       THEN /\ pc' = "raised"
            /\ error' = StageError(Pipeline[ip])
            /\ UNCHANGED ip
       ELSE /\ pc' = AfterCall(ip)
            /\ ip' = ip + 1
            /\ UNCHANGED error
    /\ UNCHANGED <<inputs, heap, self, stellar_radiation_field, result,
                   workers, writes>>

\* line 114
ReturnValue_Missing == result

ReturnValue == stellar_radiation_field

Return ==
    /\ pc = "line114"
    /\ result' = ReturnValue
    /\ pc' = "returned"
    /\ log' = Append(log, <<"create_stellar_radiation_field", "return">>)
    /\ UNCHANGED <<inputs, ip, heap, self, stellar_radiation_field, error,
                   workers, writes>>

Next ==
    \/ New
    \/ Init46
    \/ Init48
    \/ Init49
    \/ Init52Raise
    \/ Init52
    \/ Init65
    \/ CallStage
    \/ \E w \in 1 .. MaxThreads : WorkerBegin(w)
    \/ \E w \in 1 .. MaxThreads : WorkerCommit(w)
    \/ StageReturn
    \/ StageRaise
    \/ Return

Spec == Init /\ [][Next]_vars


\* ---------------------------------------------------------- vocabulary
Events == {log[i] : i \in DOMAIN log}

Count(e) == Cardinality({i \in DOMAIN log : log[i] = e})

\* Every occurrence of b in the log has an a before it.
Before(a, b) ==
    \A i \in DOMAIN log : log[i] = b => \E j \in 1 .. (i - 1) : log[j] = a

IsPrefix(s, t) == Len(s) <= Len(t) /\ \A i \in DOMAIN s : s[i] = t[i]

\* The stage whose call is in progress.
Running(stage) == pc = "running" /\ log[Len(log)] = <<stage, "call">>

AllZero(array) == \A idx \in DOMAIN array.data : array.data[idx] = 0

Depth == stellar_model.no_of_depth_points
NFreq == Len(tracing_nus)
Grid == Range0(Depth) \X Range0(NFreq)

FullOrder ==
    << <<"RadiationField", "return">>,
       <<"calc_alphas", "call">>, <<"calc_alphas", "return">>,
       <<"raytrace", "call">>, <<"raytrace", "return">>,
       <<"create_stellar_radiation_field", "return">> >>

\* ------------------------------------------------------------------ C1
\* C1: the stages of create_stellar_radiation_field happen in the order
\* construction, calc_alphas, raytrace, return: raytrace is never called
\* (so never reads an opacity) before calc_alphas has returned, and the
\* field is never returned before raytrace has returned.
C1_StrictStageOrder ==
    /\ Before(<<"RadiationField", "return">>, <<"calc_alphas", "call">>)
    /\ Before(<<"calc_alphas", "return">>, <<"raytrace", "call">>)
    /\ Before(<<"raytrace", "return">>,
              <<"create_stellar_radiation_field", "return">>)
    /\ (result # 0 => <<"raytrace", "return">> \in Events)
    /\ (Running("raytrace") => <<"calc_alphas", "return">> \in Events)
    /\ (error = "none" => IsPrefix(log, FullOrder))

C1_Witness == pc = "returned" /\ result # 0 /\ log = FullOrder

\* ------------------------------------------------------------------ C2
\* C2: once calc_alphas or raytrace has raised, the caller holds exactly
\* that error, nothing was called after the raise (calc_alphas raising
\* means raytrace is never called), the failed stage was called once only,
\* and no Radiation Field is returned.
C2_StageErrorAborts ==
    \A stage \in {"calc_alphas", "raytrace"} :
        <<stage, "raise">> \in Events =>
            /\ log[Len(log)] = <<stage, "raise">>
            /\ pc = "raised"
            /\ error = StageError(stage)
            /\ result = 0
            /\ Count(<<stage, "call">>) = 1
            /\ (stage = "calc_alphas" => <<"raytrace", "call">> \notin Events)

C2_Witness ==
    /\ <<"calc_alphas", "raise">> \in Events
    /\ error = "calc_alphas error"
    /\ \E cell \in Grid : heap[stellar_radiation_field].opacities.data[cell] # 0
    /\ \E cell \in Grid : heap[stellar_radiation_field].opacities.data[cell] = 0

\* ------------------------------------------------------------------ C3
\* C3: with an empty frequency grid, or no depth point, or no angle, the
\* construction fails: create_stellar_radiation_field never holds a
\* RadiationField.
C3_ConstructionRejectsEmpty ==
    (NFreq = 0 \/ Depth = 0 \/ config.no_of_thetas = 0) =>
        stellar_radiation_field = 0

\* ------------------------------------------------------------------ C4
\* C4: when the quadrature raises for an angle count below 1, nothing has
\* been allocated yet: no opacity container, no F_nu, no I_nus.
C4_QuadratureErrorBeforeAllocation ==
    error = "ValueError" =>
        heap[self].attrs \cap {"opacities", "F_nu", "I_nus"} = {}

\* ------------------------------------------------------------------ C5
\* The floating tolerance for a sum of n scaled weights, in units of 1/Scale.
Tol(n) == 2 * n

\* C5 (as stated): the constructed weights sum to pi/2, for every n >= 1.
C5_WeightsSumToHalfPi ==
    \A k \in DOMAIN heap :
        "I_nus_weights" \in heap[k].attrs =>
            Abs(SumSeq(heap[k].I_nus_weights) - (PI \div 2))
                <= Tol(Len(heap[k].I_nus_weights))

\* C5 (amended): the constructed weights sum to pi, for every n >= 1: the
\* Gauss-Legendre weights sum to 2 and each is multiplied by pi/2.
C5_WeightsSumToPi ==
    \A k \in DOMAIN heap :
        "I_nus_weights" \in heap[k].attrs =>
            Abs(SumSeq(heap[k].I_nus_weights) - PI)
                <= Tol(Len(heap[k].I_nus_weights))

C5_Witness ==
    /\ stellar_radiation_field # 0
    /\ Len(heap[stellar_radiation_field].I_nus_weights) = MaxThetas

\* ------------------------------------------------------------------ C6
\* C6: for n >= 1 the constructed field has exactly n angles and n weights,
\* in the order of the Gauss-Legendre nodes, each angle strictly between 0
\* and pi/2.
C6_AnglesInsideQuadrant ==
    \A k \in DOMAIN heap :
        "thetas" \in heap[k].attrs =>
            LET n == config.no_of_thetas
                th == heap[k].thetas
                wt == heap[k].I_nus_weights
            IN /\ n >= 1
               /\ Len(th) = n
               /\ Len(wt) = n
               /\ \A i \in 1 .. n : 0 < th[i] /\ th[i] < PI \div 2
               /\ \A i, j \in 1 .. n :
                     /\ (th[i] < th[j]) <=>
                           (LegGaussNodes(n)[i] < LegGaussNodes(n)[j])
                     /\ (wt[i] < wt[j]) <=>
                           (LegGaussWeights(n)[i] < LegGaussWeights(n)[j])

C6_Witness ==
    /\ pc = "line65"
    /\ config.no_of_thetas = MaxThetas
    /\ Len(heap[self].thetas) = MaxThetas
    /\ heap[self].thetas[1] < heap[self].thetas[MaxThetas]

\* ------------------------------------------------------------------ C7
ShapesOK(obj) ==
    /\ obj.F_nu.shape = <<Depth, NFreq>>
    /\ DOMAIN obj.F_nu.data = Grid
    /\ obj.I_nus.shape = <<Depth, NFreq, config.no_of_thetas>>
    /\ DOMAIN obj.I_nus.data =
          Range0(Depth) \X Range0(NFreq) \X Range0(config.no_of_thetas)

\* C7: from the end of construction to the return, F_nu has shape
\* (no_of_depth_points, len(frequencies)) and I_nus has shape
\* (no_of_depth_points, len(frequencies), num_of_thetas).
C7_ShapesFixed ==
    /\ (stellar_radiation_field # 0 => ShapesOK(heap[stellar_radiation_field]))
    /\ (result # 0 => ShapesOK(heap[result]))

C7_Witness ==
    /\ pc = "returned"
    /\ result # 0
    /\ heap[result].F_nu.shape = <<MaxDepth, 1>>
    /\ heap[result].I_nus.shape = <<MaxDepth, 1, MaxThetas>>


\* ------------------------------------------------------------------ C8
\* What one worker alone, taking the cells in order, leaves in the field.
SequentialOpacities == [cell \in Grid |-> stellar_plasma.alpha]
SequentialFnu == [cell \in Grid |-> stellar_plasma.alpha * cell[1]]
SequentialInus ==
    [idx \in Range0(Depth) \X Range0(NFreq) \X Range0(config.no_of_thetas) |->
        stellar_plasma.alpha * (idx[1] + idx[3])]

\* C8: with workers that own disjoint cells, the returned opacities, F_nu
\* and I_nus are those of the one-worker run, whatever n_threads is and
\* however the workers interleave, and no cell has two writers at a time.
C8_ThreadCountIrrelevant ==
    /\ \A v, w \in DOMAIN writing :
          (v # w /\ writing[v] # NoCell) => writing[v] # writing[w]
    /\ pc = "returned" =>
          /\ result # 0
          /\ heap[result].opacities.data = SequentialOpacities
          /\ heap[result].F_nu.data = SequentialFnu
          /\ heap[result].I_nus.data = SequentialInus

C8_Witness ==
    /\ pc = "returned"
    /\ result # 0
    /\ config.n_threads = MaxThreads
    /\ Cardinality(Grid) >= 2 * MaxThreads
    /\ \A cell \in Grid : writes[cell] = 1

\* ------------------------------------------------------------------ C9
\* C9: with the stub that fills every opacity cell with c > 0 and the stub
\* that sets F_nu[d, f] = c * d, create_stellar_radiation_field returns the
\* one object it constructed and handed to both stubs, with F_nu = c * d
\* and opacities = c in every cell: no copy, no reset in between.
C9_ReturnsTheMutatedField ==
    /\ Len(heap) <= 1
    /\ (pc = "running" => target = stellar_radiation_field)
    /\ pc = "returned" =>
          /\ result # 0
          /\ result = stellar_radiation_field
          /\ result = target
          /\ \A cell \in Grid :
                /\ heap[result].F_nu.data[cell] = stellar_plasma.alpha * cell[1]
                /\ heap[result].opacities.data[cell] = stellar_plasma.alpha
                /\ stellar_plasma.alpha > 0

C9_Witness ==
    /\ pc = "returned"
    /\ result = 1
    /\ \E cell \in Grid : heap[result].F_nu.data[cell] > 0

\* ----------------------------------------------------------------- C10
C10_ZeroUntilRaytrace ==
    \A k \in DOMAIN heap :
        <<"raytrace", "call">> \notin Events =>
            /\ ("F_nu" \in heap[k].attrs => AllZero(heap[k].F_nu))
            /\ ("I_nus" \in heap[k].attrs => AllZero(heap[k].I_nus))

C10_WrittenOnce ==
    /\ Count(<<"raytrace", "call">>) <= 1
    /\ \A cell \in DOMAIN writes : writes[cell] <= 1

C10_OnlyRaytraceWrites ==
    \A k \in DOMAIN heap :
        \/ /\ "F_nu" \in heap[k].attrs => heap'[k].F_nu = heap[k].F_nu
           /\ "I_nus" \in heap[k].attrs => heap'[k].I_nus = heap[k].I_nus
        \/ Running("raytrace")

C10_RaytraceFrame ==
    Running("raytrace") =>
        \A k \in DOMAIN heap :
            /\ heap'[k].opacities = heap[k].opacities
            /\ heap'[k].frequencies = heap[k].frequencies
            /\ heap'[k].thetas = heap[k].thetas
            /\ heap'[k].I_nus_weights = heap[k].I_nus_weights
            /\ heap'[k].source_function = heap[k].source_function

\* C10: F_nu and I_nus are all zero from their allocation until raytrace is
\* called; only a running raytrace changes them, raytrace runs once and
\* writes each cell once; and a running raytrace leaves opacities,
\* frequencies, thetas, I_nus_weights and source_function as they were.
C10_FluxFrame ==
    /\ [](C10_ZeroUntilRaytrace /\ C10_WrittenOnce)
    /\ [][C10_OnlyRaytraceWrites /\ C10_RaytraceFrame]_vars

C10_Witness ==
    /\ Running("raytrace")
    /\ \E cell \in Grid : heap[target].F_nu.data[cell] # 0
    /\ \E w \in DOMAIN writing : writing[w] # NoCell

====
